---- MODULE Spec2Model ----
(***************************************************************************)
(* The Subject Data Vault of ClearGDPR (SubjectsService) over a relational *)
(* store with three tables, subjects / subject_keys / subject_processors,  *)
(* and the erasure ledger notifier.  Every public method is a call that    *)
(* advances one store statement (one await) at a time.  The columns        *)
(* created_at and updated_at are left out.                                 *)
(* The admin console's ProcessorsProvider is modelled beside it: its React *)
(* state, the requests it has in flight and the processor list of the      *)
(* management API it talks to.                                             *)
(***************************************************************************)
EXTENDS Integers, Sequences, FiniteSets, TLC

VARIABLES
    subjects,            \* committed rows of table subjects
    subject_keys,        \* committed rows of table subject_keys
    subject_processors,  \* committed rows of table subject_processors
    calls,               \* per caller: the method in progress, its locals, its transaction
    nextKey,             \* the next key generateClientKey hands out
    ledger,              \* per subject id: recordErasureByProcessor invocations so far
    ncalls,              \* calls made so far
    erased,              \* history: the subject ids whose erasure has committed
    state,               \* ProcessorsProvider: this.state (processors, isLoading)
    server,              \* the management API's processor list
    requests             \* ProcessorsProvider: the method calls made, each with its request

vars == <<subjects, subject_keys, subject_processors, calls, nextKey, ledger, ncalls, erased,
          state, server, requests>>

provider == <<state, server, requests>>

store == <<subjects, subject_keys, subject_processors>>

----------------------------------------------------------------------------
(* Bounds and program constants *)

PAGE_SIZE == 10

MaxKeys == 2            \* keys generateClientKey hands out in one behaviour
MaxNotifications == 2   \* ledger notifier invocations in one behaviour
MaxCalls == 4           \* calls made in one behaviour
MaxPage == 3            \* largest page number requested
MaxListSubjects == 21   \* subjects in the store of the listing specification
MaxRequests == 3      \* method calls of the console's user

SubjectIds == {1, 2}
ProcessorIds == {1, 2}
Callers == {1, 2}
Names == {"Alice", "Bob"}
\* the flag triples passed to restrict
Restrictions == {<<FALSE, TRUE, FALSE>>, <<TRUE, FALSE, FALSE>>}
\* personal-data payloads: JSON objects {name: ...}
Payloads == [name : Names]
Objections == BOOLEAN
\* SQL NULL in a nullable column, and a present column value
NULL == <<>>
Some(v) == <<v>>
\* no key: generateClientKey hands out 1, 2, ...
NullKey == 0

----------------------------------------------------------------------------
(* JSON and the cipher adapter *)

JSONStringify(p) == <<"{", "name", ":", p.name, "}">>
JSONParse(s) == [name |-> s[4]]

DecodeError == "DecodeError"
encryptForStorage(text, key) == [text |-> text, key |-> key]
decryptFromStorage(ct, key) == IF ct.key = key THEN ct.text ELSE DecodeError

----------------------------------------------------------------------------
(* Results *)

NoResult == [kind |-> "none"]
Ok == [kind |-> "ok"]
Value(v) == [kind |-> "value", value |-> v]
Err(e) == [kind |-> "error", error |-> e]
NotFound == Err("NotFound")
Forbidden == Err("Forbidden")
ValidationError == Err("ValidationError")
StoreError == Err("StoreError")
UniqueViolation == Err("UniqueViolation")
LedgerError == Err("LedgerError")
DecryptionError == Err("DecodeError")

----------------------------------------------------------------------------
(* Transactions: the uncommitted writes a call holds *)

EmptyTrx == [insSubjects |-> {}, updData |-> {}, insKeys |-> {},
             delKeys |-> {}, delProcessors |-> {}]

Idle == [op |-> "idle", pc |-> "done", subjectId |-> 0, arg |-> <<>>,
         encryptionKey |-> NullKey, totalPages |-> 0,
         notified |-> 0, notifierFailed |-> FALSE,
         trx |-> EmptyTrx, result |-> NoResult]

InFlight(c) == calls[c].pc # "done"

\* Rows another open transaction has inserted, updated or deleted and not yet committed.
OthersInsertSubject(c, id) ==
    \E d \in Callers \ {c} : \E r \in calls[d].trx.insSubjects : r.id = id
OthersInsertKey(c, id) ==
    \E d \in Callers \ {c} : \E r \in calls[d].trx.insKeys : r.subject_id = id
OthersUpdateSubject(c, id) ==
    \E d \in Callers \ {c} : \E u \in calls[d].trx.updData : u.id = id
OthersDeleteKey(c, id) ==
    \E d \in Callers \ {c} : \E r \in calls[d].trx.delKeys : r.subject_id = id
OthersDeleteProcessor(c, id) ==
    \E d \in Callers \ {c} : \E r \in calls[d].trx.delProcessors : r.subject_id = id

\* Mutant: an update of the data also puts the consent flags back to their defaults.
ApplyUpdates_ResetFlags(rows, upd) ==
    { IF \E u \in upd : u.id = r.id
        THEN [r EXCEPT !.personal_data = (CHOOSE u \in upd : u.id = r.id).personal_data,
                       !.direct_marketing = TRUE,
                       !.email_communication = TRUE,
                       !.research = TRUE]
        ELSE r : r \in rows }

\* The committed subjects with a transaction's column updates applied.
ApplyUpdates(rows, upd) ==
    { IF \E u \in upd : u.id = r.id
        THEN [r EXCEPT !.personal_data = (CHOOSE u \in upd : u.id = r.id).personal_data]
        ELSE r : r \in rows }

CommitSubjects(t) == ApplyUpdates(subjects, t.updData) \cup t.insSubjects
CommitKeys(t) == (subject_keys \ t.delKeys) \cup t.insKeys
CommitProcessors(t) == subject_processors \ t.delProcessors

----------------------------------------------------------------------------
(* Queries *)

SubjectRows(id) == { r \in subjects : r.id = id }
KeyRows(id) == { k \in subject_keys : k.subject_id = id }
ProcessorRows(id) == { a \in subject_processors : a.subject_id = id }

\* subjects JOIN subject_keys ON subjects.id = subject_keys.subject_id
JoinKeys == { [id |-> r.id, personal_data |-> r.personal_data, key |-> k.key] :
              <<r, k>> \in { p \in subjects \X subject_keys : p[1].id = p[2].subject_id } }

\* The store's uniqueness constraints: subjects.id and subject_keys.subject_id.
SubjectIdTaken(id) == SubjectRows(id) # {}
KeySubjectIdTaken(id) == KeyRows(id) # {}

Ceil(n, d) == (n + d - 1) \div d

RECURSIVE OrderByIdAsc(_)
OrderByIdAsc(rows) ==
    IF rows = {} THEN <<>>
    ELSE LET first == CHOOSE r \in rows : \A q \in rows : r.id <= q.id
         IN  <<first>> \o OrderByIdAsc(rows \ {first})

\* LIMIT n OFFSET k of an ordered result
LimitOffset(seq, n, k) ==
    [i \in 1..(IF Len(seq) - k < 0 THEN 0 ELSE IF Len(seq) - k < n THEN Len(seq) - k ELSE n)
        |-> seq[k + i]]

----------------------------------------------------------------------------
(* The methods' computations on a committed store *)

\* getSubjectData: subjects JOIN subject_keys WHERE subject_id = id, first row, decrypt, parse
GetSubjectData(id) ==
    LET found == { j \in JoinKeys : j.id = id }
    IN  IF found = {} THEN NotFound
        ELSE LET data == CHOOSE j \in found : TRUE
                 decryptedData == decryptFromStorage(data.personal_data[1], data.key)
             IN  IF decryptedData = DecodeError THEN DecryptionError
                 ELSE Value(JSONParse(decryptedData))

\* Mutant: a missing row is answered with the default flags.
GetSubjectRestrictions_Defaults(id) ==
    IF SubjectRows(id) = {}
      THEN Value([direct_marketing |-> TRUE, email_communication |-> TRUE,
                  research |-> TRUE])
    ELSE LET r == CHOOSE r \in SubjectRows(id) : TRUE
         IN  Value([direct_marketing |-> r.direct_marketing,
                    email_communication |-> r.email_communication,
                    research |-> r.research])

GetSubjectRestrictions(id) ==
    IF SubjectRows(id) = {} THEN NotFound
    ELSE LET r == CHOOSE r \in SubjectRows(id) : TRUE
         IN  Value([direct_marketing |-> r.direct_marketing,
                    email_communication |-> r.email_communication,
                    research |-> r.research])

GetSubjectObjection(id) ==
    IF SubjectRows(id) = {} THEN NotFound
    ELSE LET r == CHOOSE r \in SubjectRows(id) : TRUE
         IN  Value([objection |-> r.objection])

\* The rows both listSubjects queries range over.
ListJoin(processorId) ==
    { j \in JoinKeys :
        /\ \E a \in subject_processors :
              a.subject_id = j.id /\ a.processor_id = processorId
        /\ j.personal_data # NULL
        /\ j.key # NullKey }

\* Mutant: zero pages are not raised to one.
TotalPages_NoFloor(numberOfSubjects) == Ceil(numberOfSubjects, PAGE_SIZE)

TotalPages(numberOfSubjects) ==
    IF Ceil(numberOfSubjects, PAGE_SIZE) = 0 THEN 1 ELSE Ceil(numberOfSubjects, PAGE_SIZE)

\* The checks listSubjects makes between its two queries: an error, or NoResult to go on.
PageCheck(requestedPage, totalPages) ==
    IF requestedPage > totalPages THEN ValidationError
    ELSE IF requestedPage < 1 THEN ValidationError
    ELSE NoResult

\* Mutant: the offset is the page number, not a number of rows.
SelectPage_PageAsOffset(processorId, requestedPage) ==
    LET page == LimitOffset(OrderByIdAsc(ListJoin(processorId)), PAGE_SIZE,
                            requestedPage - 1)
    IN  [i \in 1..Len(page) |-> [id |-> page[i].id]]

SelectPage(processorId, requestedPage) ==
    LET page == LimitOffset(OrderByIdAsc(ListJoin(processorId)), PAGE_SIZE,
                            (requestedPage - 1) * PAGE_SIZE)
    IN  [i \in 1..Len(page) |-> [id |-> page[i].id]]

----------------------------------------------------------------------------
(* Calls *)

Set(c, rec) == calls' = [calls EXCEPT ![c] = rec]

\* The method returns or throws: its transaction, if any, is over.
Finish(c, res) ==
    Set(c, [calls[c] EXCEPT !.pc = "done", !.trx = EmptyTrx, !.result = res,
                            !.encryptionKey = NullKey, !.totalPages = 0])

FirstPc(op) ==
    CASE op = "initializeUser" -> "selectSubject"
      [] op = "eraseDataAndRevokeConsent" -> "deleteKeys"
      [] op = "listSubjects" -> "count"
      [] OTHER -> "statement"

Transactional(op) == op \in {"initializeUser", "eraseDataAndRevokeConsent"}

PendingErasures == Cardinality({ c \in Callers :
    calls[c].op = "eraseDataAndRevokeConsent" /\ InFlight(c) /\ calls[c].notified = 0 })

\* initializeUser calls that may still ask generateClientKey for a key
PendingKeys == Cardinality({ c \in Callers :
    calls[c].op = "initializeUser" /\ InFlight(c) /\ calls[c].encryptionKey = NullKey })

RECURSIVE Sum(_, _)
Sum(f, S) == IF S = {} THEN 0 ELSE LET x == CHOOSE x \in S : TRUE IN f[x] + Sum(f, S \ {x})

Begin(c, op, id, arg) ==
    /\ ~InFlight(c)
    /\ ncalls < MaxCalls
    /\ ncalls' = ncalls + 1
    /\ Set(c, [Idle EXCEPT !.op = op, !.pc = FirstPc(op), !.subjectId = id, !.arg = arg])
    /\ UNCHANGED <<store, nextKey, ledger, erased, provider>>

\* A caller invokes one of the service's public methods.
StartGetSubjectData(c) == \E id \in SubjectIds : Begin(c, "getSubjectData", id, <<>>)

StartInitializeUser(c) ==
    \E id \in SubjectIds, personalData \in Payloads :
        /\ KeyRows(id) # {} \/ nextKey + PendingKeys <= MaxKeys
        /\ Begin(c, "initializeUser", id, personalData)

StartListSubjects(c) ==
    \E processorId \in ProcessorIds, requestedPage \in 0..MaxPage :
        Begin(c, "listSubjects", 0, <<processorId, requestedPage>>)

StartEraseDataAndRevokeConsent(c) ==
    \E id \in SubjectIds :
        /\ Sum(ledger, SubjectIds) + PendingErasures < MaxNotifications
        /\ Begin(c, "eraseDataAndRevokeConsent", id, <<>>)

StartRestrict(c) ==
    \E id \in SubjectIds, flags \in Restrictions : Begin(c, "restrict", id, flags)

StartGetSubjectRestrictions(c) ==
    \E id \in SubjectIds : Begin(c, "getSubjectRestrictions", id, <<>>)

StartObject(c) ==
    \E id \in SubjectIds, objection \in Objections : Begin(c, "object", id, <<objection>>)

StartGetSubjectObjection(c) ==
    \E id \in SubjectIds : Begin(c, "getSubjectObjection", id, <<>>)

StartCall(c) ==
    \/ StartGetSubjectData(c)
    \/ StartInitializeUser(c)
    \/ StartListSubjects(c)
    \/ StartEraseDataAndRevokeConsent(c)
    \/ StartRestrict(c)
    \/ StartGetSubjectRestrictions(c)
    \/ StartObject(c)
    \/ StartGetSubjectObjection(c)

At(c, op, pc) == calls[c].op = op /\ calls[c].pc = pc

\* generateClientKey: a key never handed out before
CanGenerateKey == nextKey <= MaxKeys

----------------------------------------------------------------------------
(* getSubjectData *)

GetSubjectDataCall(c) ==
    /\ At(c, "getSubjectData", "statement")
    /\ Finish(c, GetSubjectData(calls[c].subjectId))
    /\ UNCHANGED <<store, nextKey, ledger, ncalls, erased, provider>>

----------------------------------------------------------------------------
(* initializeUser *)

\* _initializeUserInTransaction: the subject lookup that picks the branch
InitializeUserInTransaction(c) ==
    /\ At(c, "initializeUser", "selectSubject")
    /\ IF SubjectRows(calls[c].subjectId) = {}
         THEN \* _createNewSubject starts: generateClientKey
              /\ CanGenerateKey
              /\ Set(c, [calls[c] EXCEPT !.pc = "insertSubject", !.encryptionKey = nextKey])
              /\ nextKey' = nextKey + 1
         ELSE /\ Set(c, [calls[c] EXCEPT !.pc = "selectKey"])
              /\ UNCHANGED nextKey
    /\ UNCHANGED <<store, ledger, ncalls, erased, provider>>

NewSubjectRow(id, personalData, encryptionKey) ==
    [id |-> id,
     personal_data |-> Some(encryptForStorage(JSONStringify(personalData), encryptionKey)),
     direct_marketing |-> TRUE,
     email_communication |-> TRUE,
     research |-> TRUE,
     objection |-> NULL]

\* Mutant: the insert does not run in the transaction.
CreateNewSubject_NotTransacting(c) ==
    /\ At(c, "initializeUser", "insertSubject")
    /\ IF SubjectIdTaken(calls[c].subjectId)
         THEN Finish(c, UniqueViolation) /\ UNCHANGED subjects
         ELSE /\ Set(c, [calls[c] EXCEPT !.pc = "insertKey"])
              /\ subjects' = subjects \cup
                     {NewSubjectRow(calls[c].subjectId, calls[c].arg, calls[c].encryptionKey)}
    /\ UNCHANGED <<subject_keys, subject_processors, nextKey, ledger, ncalls, erased, provider>>

\* _createNewSubject: the insert into subjects
CreateNewSubject(c) ==
    /\ At(c, "initializeUser", "insertSubject")
    /\ ~OthersInsertSubject(c, calls[c].subjectId)
    /\ IF SubjectIdTaken(calls[c].subjectId)
         THEN Finish(c, UniqueViolation)
         ELSE Set(c, [calls[c] EXCEPT
                 !.pc = "insertKey",
                 !.trx.insSubjects = @ \cup
                     {NewSubjectRow(calls[c].subjectId, calls[c].arg, calls[c].encryptionKey)}])
    /\ UNCHANGED <<store, nextKey, ledger, ncalls, erased, provider>>

\* Mutant: the key row holds another key than the one the data is encrypted under.
SaveSubjectEncryptionKey_OtherKey(c, from, to) ==
    /\ At(c, "initializeUser", from)
    /\ ~OthersInsertKey(c, calls[c].subjectId)
    /\ ~OthersDeleteKey(c, calls[c].subjectId)
    /\ IF KeySubjectIdTaken(calls[c].subjectId)
         THEN Finish(c, UniqueViolation)
         ELSE Set(c, [calls[c] EXCEPT
                 !.pc = to,
                 !.trx.insKeys = @ \cup
                     {[subject_id |-> calls[c].subjectId, key |-> calls[c].encryptionKey + 1]}])
    /\ UNCHANGED <<store, nextKey, ledger, ncalls, erased, provider>>

\* _saveSubjectEncryptionKey, called at pc `from`; the caller goes on at `to`
SaveSubjectEncryptionKey(c, from, to) ==
    /\ At(c, "initializeUser", from)
    /\ ~OthersInsertKey(c, calls[c].subjectId)
    /\ ~OthersDeleteKey(c, calls[c].subjectId)
    /\ IF KeySubjectIdTaken(calls[c].subjectId)
         THEN Finish(c, UniqueViolation)
         ELSE Set(c, [calls[c] EXCEPT
                 !.pc = to,
                 !.trx.insKeys = @ \cup
                     {[subject_id |-> calls[c].subjectId, key |-> calls[c].encryptionKey]}])
    /\ UNCHANGED <<store, nextKey, ledger, ncalls, erased, provider>>

CreateNewSubjectSaveKey(c) == SaveSubjectEncryptionKey(c, "insertKey", "commit")

\* Mutant: a fresh key is generated whether or not a key row was found.
UpdateExistingSubjectSelectKey_AlwaysFresh(c) ==
    /\ At(c, "initializeUser", "selectKey")
    /\ Set(c, [calls[c] EXCEPT !.pc = "updateSubject", !.encryptionKey = nextKey])
    /\ nextKey' = nextKey + 1
    /\ UNCHANGED <<store, ledger, ncalls, erased, provider>>

\* _updateExistingSubject: the key lookup
UpdateExistingSubjectSelectKey(c) ==
    /\ At(c, "initializeUser", "selectKey")
    /\ IF KeyRows(calls[c].subjectId) # {}
         THEN /\ Set(c, [calls[c] EXCEPT
                     !.pc = "updateSubject",
                     !.encryptionKey = (CHOOSE k \in KeyRows(calls[c].subjectId) : TRUE).key])
              /\ UNCHANGED nextKey
         ELSE /\ CanGenerateKey
              /\ Set(c, [calls[c] EXCEPT !.pc = "saveKey", !.encryptionKey = nextKey])
              /\ nextKey' = nextKey + 1
    /\ UNCHANGED <<store, ledger, ncalls, erased, provider>>

\* Mutant: the generated key is used but its row is not inserted.
UpdateExistingSubjectSaveKey_NoInsert(c) ==
    /\ At(c, "initializeUser", "saveKey")
    /\ Set(c, [calls[c] EXCEPT !.pc = "updateSubject"])
    /\ UNCHANGED <<store, nextKey, ledger, ncalls, erased, provider>>

UpdateExistingSubjectSaveKey(c) == SaveSubjectEncryptionKey(c, "saveKey", "updateSubject")

\* Mutant: the data is encrypted under a key that is not the one resolved.
UpdateExistingSubject_OtherKey(c) ==
    /\ At(c, "initializeUser", "updateSubject")
    /\ ~OthersUpdateSubject(c, calls[c].subjectId)
    /\ Set(c, [calls[c] EXCEPT
          !.pc = "commit",
          !.trx.updData = @ \cup
              {[id |-> calls[c].subjectId,
                personal_data |->
                    Some(encryptForStorage(JSONStringify(calls[c].arg), nextKey))]}])
    /\ UNCHANGED <<store, nextKey, ledger, ncalls, erased, provider>>

\* _updateExistingSubject: the update of subjects.personal_data
UpdateExistingSubject(c) ==
    /\ At(c, "initializeUser", "updateSubject")
    /\ ~OthersUpdateSubject(c, calls[c].subjectId)
    /\ Set(c, [calls[c] EXCEPT
          !.pc = "commit",
          !.trx.updData = @ \cup
              {[id |-> calls[c].subjectId,
                personal_data |->
                    Some(encryptForStorage(JSONStringify(calls[c].arg), calls[c].encryptionKey))]}])
    /\ UNCHANGED <<store, nextKey, ledger, ncalls, erased, provider>>

----------------------------------------------------------------------------
(* eraseDataAndRevokeConsent *)

\* Mutant: the key rows are left in place.
EraseDeleteKeys_NoDelete(c) ==
    /\ At(c, "eraseDataAndRevokeConsent", "deleteKeys")
    /\ Set(c, [calls[c] EXCEPT !.pc = "deleteProcessors"])
    /\ UNCHANGED <<store, nextKey, ledger, ncalls, erased, provider>>

\* delete from subject_keys where subject_id = id
EraseDeleteKeys(c) ==
    /\ At(c, "eraseDataAndRevokeConsent", "deleteKeys")
    /\ ~OthersDeleteKey(c, calls[c].subjectId)
    /\ Set(c, [calls[c] EXCEPT !.pc = "deleteProcessors",
                               !.trx.delKeys = KeyRows(calls[c].subjectId)])
    /\ UNCHANGED <<store, nextKey, ledger, ncalls, erased, provider>>

\* Mutant: the delete loses its where clause.
EraseDeleteProcessors_AllSubjects(c) ==
    /\ At(c, "eraseDataAndRevokeConsent", "deleteProcessors")
    /\ ledger' = [ledger EXCEPT ![calls[c].subjectId] = @ + 1]
    /\ Set(c, [calls[c] EXCEPT !.pc = "recordErasure",
                               !.trx.delProcessors = subject_processors,
                               !.notified = @ + 1])
    /\ UNCHANGED <<store, nextKey, ncalls, erased, provider>>

\* Mutant: the associations are left in place.
EraseDeleteProcessors_NoDelete(c) ==
    /\ At(c, "eraseDataAndRevokeConsent", "deleteProcessors")
    /\ ledger' = [ledger EXCEPT ![calls[c].subjectId] = @ + 1]
    /\ Set(c, [calls[c] EXCEPT !.pc = "recordErasure", !.notified = @ + 1])
    /\ UNCHANGED <<store, nextKey, ncalls, erased, provider>>

\* Mutant: the notifier is invoked only when a key row was deleted.
EraseDeleteProcessors_NotifyOnlyIfDeleted(c) ==
    /\ At(c, "eraseDataAndRevokeConsent", "deleteProcessors")
    /\ ~OthersDeleteProcessor(c, calls[c].subjectId)
    /\ IF calls[c].trx.delKeys = {}
         THEN /\ ledger' = ledger
              /\ Set(c, [calls[c] EXCEPT
                      !.pc = "recordErasure",
                      !.trx.delProcessors = ProcessorRows(calls[c].subjectId)])
         ELSE /\ ledger' = [ledger EXCEPT ![calls[c].subjectId] = @ + 1]
              /\ Set(c, [calls[c] EXCEPT
                      !.pc = "recordErasure",
                      !.trx.delProcessors = ProcessorRows(calls[c].subjectId),
                      !.notified = @ + 1])
    /\ UNCHANGED <<store, nextKey, ncalls, erased, provider>>

\* delete from subject_processors where subject_id = id; when it has resolved
\* the callback goes on to its next await: winston.info, then
\* recordErasureByProcessor(subjectId) is called, inside the transaction callback
EraseDeleteProcessors(c) ==
    /\ At(c, "eraseDataAndRevokeConsent", "deleteProcessors")
    /\ ~OthersDeleteProcessor(c, calls[c].subjectId)
    /\ ledger' = [ledger EXCEPT ![calls[c].subjectId] = @ + 1]
    /\ Set(c, [calls[c] EXCEPT !.pc = "recordErasure",
                               !.trx.delProcessors = ProcessorRows(calls[c].subjectId),
                               !.notified = @ + 1])
    /\ UNCHANGED <<store, nextKey, ncalls, erased, provider>>

\* the promise of recordErasureByProcessor resolves: the callback returns
EraseRecordErasure(c) ==
    /\ At(c, "eraseDataAndRevokeConsent", "recordErasure")
    /\ Set(c, [calls[c] EXCEPT !.pc = "commit"])
    /\ UNCHANGED <<store, nextKey, ledger, ncalls, erased, provider>>

\* the promise of recordErasureByProcessor rejects: the callback throws, the
\* transaction is rolled back and eraseDataAndRevokeConsent rejects
EraseRecordErasureFails(c) ==
    /\ At(c, "eraseDataAndRevokeConsent", "recordErasure")
    /\ Set(c, [calls[c] EXCEPT !.pc = "done", !.trx = EmptyTrx, !.result = LedgerError,
                               !.notifierFailed = TRUE])
    /\ UNCHANGED <<store, nextKey, ledger, ncalls, erased, provider>>

----------------------------------------------------------------------------
(* db.transaction: commit when the callback resolves, roll back when it throws *)

Commit(c) ==
    /\ Transactional(calls[c].op)
    /\ calls[c].pc = "commit"
    /\ subjects' = CommitSubjects(calls[c].trx)
    /\ subject_keys' = CommitKeys(calls[c].trx)
    /\ subject_processors' = CommitProcessors(calls[c].trx)
    /\ Finish(c, Ok)
    /\ erased' = IF calls[c].op = "eraseDataAndRevokeConsent"
                   THEN erased \cup {calls[c].subjectId} ELSE erased
    /\ UNCHANGED <<nextKey, ledger, ncalls, provider>>

StorePcs == {"statement", "selectSubject", "insertSubject", "insertKey", "selectKey",
             "saveKey", "updateSubject", "deleteKeys", "deleteProcessors", "commit",
             "count", "selectPage"}

\* A store statement (or the commit) fails: the error propagates, the open
\* transaction is rolled back.
StoreFailure(c) ==
    /\ InFlight(c)
    /\ calls[c].pc \in StorePcs
    /\ Finish(c, StoreError)
    /\ UNCHANGED <<store, nextKey, ledger, ncalls, erased, provider>>

----------------------------------------------------------------------------
(* restrict, object and their getters: single statements outside any transaction *)

UpdateCountResult(n) == IF n = 0 THEN NotFound ELSE IF n > 1 THEN Forbidden ELSE Ok

\* Mutant: the direct_marketing and email_communication arguments are swapped.
Restrict_SwappedFlags(c) ==
    /\ At(c, "restrict", "statement")
    /\ ~OthersUpdateSubject(c, calls[c].subjectId)
    /\ subjects' = { IF r.id = calls[c].subjectId
                       THEN [r EXCEPT !.direct_marketing = calls[c].arg[2],
                                      !.email_communication = calls[c].arg[1],
                                      !.research = calls[c].arg[3]]
                       ELSE r : r \in subjects }
    /\ Finish(c, UpdateCountResult(Cardinality(SubjectRows(calls[c].subjectId))))
    /\ UNCHANGED <<subject_keys, subject_processors, nextKey, ledger, ncalls, erased, provider>>

Restrict(c) ==
    /\ At(c, "restrict", "statement")
    /\ ~OthersUpdateSubject(c, calls[c].subjectId)
    /\ subjects' = { IF r.id = calls[c].subjectId
                       THEN [r EXCEPT !.direct_marketing = calls[c].arg[1],
                                      !.email_communication = calls[c].arg[2],
                                      !.research = calls[c].arg[3]]
                       ELSE r : r \in subjects }
    /\ Finish(c, UpdateCountResult(Cardinality(SubjectRows(calls[c].subjectId))))
    /\ UNCHANGED <<subject_keys, subject_processors, nextKey, ledger, ncalls, erased, provider>>

GetSubjectRestrictionsCall(c) ==
    /\ At(c, "getSubjectRestrictions", "statement")
    /\ Finish(c, GetSubjectRestrictions(calls[c].subjectId))
    /\ UNCHANGED <<store, nextKey, ledger, ncalls, erased, provider>>

Object(c) ==
    /\ At(c, "object", "statement")
    /\ ~OthersUpdateSubject(c, calls[c].subjectId)
    /\ subjects' = { IF r.id = calls[c].subjectId
                       THEN [r EXCEPT !.objection = Some(calls[c].arg[1])]
                       ELSE r : r \in subjects }
    /\ Finish(c, UpdateCountResult(Cardinality(SubjectRows(calls[c].subjectId))))
    /\ UNCHANGED <<subject_keys, subject_processors, nextKey, ledger, ncalls, erased, provider>>

GetSubjectObjectionCall(c) ==
    /\ At(c, "getSubjectObjection", "statement")
    /\ Finish(c, GetSubjectObjection(calls[c].subjectId))
    /\ UNCHANGED <<store, nextKey, ledger, ncalls, erased, provider>>

----------------------------------------------------------------------------
(* listSubjects: a count query, the page checks, then the page query *)

ListSubjectsCount(c) ==
    /\ At(c, "listSubjects", "count")
    /\ LET totalPages == TotalPages(Cardinality(ListJoin(calls[c].arg[1])))
           check == PageCheck(calls[c].arg[2], totalPages)
       IN  IF check # NoResult
             THEN Finish(c, check)
             ELSE Set(c, [calls[c] EXCEPT !.pc = "selectPage", !.totalPages = totalPages])
    /\ UNCHANGED <<store, nextKey, ledger, ncalls, erased, provider>>

ListSubjectsSelectPage(c) ==
    /\ At(c, "listSubjects", "selectPage")
    /\ Finish(c, Value([data |-> SelectPage(calls[c].arg[1], calls[c].arg[2]),
                        paging |-> [current |-> calls[c].arg[2],
                                    total |-> calls[c].totalPages]]))
    /\ UNCHANGED <<store, nextKey, ledger, ncalls, erased, provider>>

----------------------------------------------------------------------------
(* ProcessorsProvider *)

ProcessorNames == {"ACME", "Initech"}
Processors == [id : ProcessorIds, name : ProcessorNames]
Requests == 1..MaxRequests

NoRequest == [method |-> "none", pc |-> "idle", arg |-> <<>>, response |-> <<>>]

\* state = { processors: [], ..., isLoading: false }; nothing called yet; the
\* management API knows one processor.
InitProvider ==
    /\ state = [processors |-> <<>>, isLoading |-> FALSE]
    /\ server = <<[id |-> 1, name |-> "ACME"]>>
    /\ requests = [r \in Requests |-> NoRequest]

vault == <<subjects, subject_keys, subject_processors, calls, nextKey, ledger, ncalls, erased>>

SetRequest(r, rec) == requests' = [requests EXCEPT ![r] = rec]

\* The next method call of the console's user.
CanCall(r) ==
    /\ requests[r].pc = "idle"
    /\ IF r = 1 THEN TRUE ELSE requests[r - 1].pc # "idle"

\* A request or its response is on its way, or a continuation is yet to run.
Pending(r) == requests[r].pc \notin {"idle", "resolved", "rejected"}

setLoading(loading) == [state EXCEPT !.isLoading = loading]

\* fetchProcessors up to its await: setLoading(true), GET sent
FetchProcessors(r) ==
    /\ CanCall(r)
    /\ state' = setLoading(TRUE)
    /\ SetRequest(r, [NoRequest EXCEPT !.method = "fetchProcessors", !.pc = "getSent"])
    /\ UNCHANGED <<server, vault>>

\* addProcessor / updateProcessor / deleteProcessor up to their await: request sent
CallMutator(r, method, arg) ==
    /\ CanCall(r)
    /\ SetRequest(r, [NoRequest EXCEPT !.method = method, !.pc = "mutationSent",
                                       !.arg = <<arg>>])
    /\ UNCHANGED <<state, server, vault>>

AddProcessor(r) == \E processor \in Processors : CallMutator(r, "addProcessor", processor)
UpdateProcessor(r) == \E processor \in Processors : CallMutator(r, "updateProcessor", processor)
DeleteProcessor(r) == \E processorId \in ProcessorIds : CallMutator(r, "deleteProcessor", processorId)

\* The management API, GET /api/management/processors: answers with its list.
GetProcessors(r) ==
    /\ requests[r].pc = "getSent"
    /\ SetRequest(r, [requests[r] EXCEPT !.pc = "getOk", !.response = server])
    /\ UNCHANGED <<state, server, vault>>

Known(id) == \E i \in 1..Len(server) : server[i].id = id

\* What the management API makes of its list on POST, PUT and DELETE.
ServerAfter(method, arg) ==
    CASE method = "addProcessor" -> Append(server, arg)
      [] method = "updateProcessor" ->
            [i \in 1..Len(server) |-> IF server[i].id = arg.id THEN arg ELSE server[i]]
      [] method = "deleteProcessor" -> SelectSeq(server, LAMBDA p : p.id # arg)

\* POST adds a processor it does not know yet, PUT and DELETE change one it knows.
Accepts(method, arg) ==
    CASE method = "addProcessor" -> ~Known(arg.id)
      [] method = "updateProcessor" -> Known(arg.id)
      [] method = "deleteProcessor" -> Known(arg)

\* The management API handles a POST, PUT or DELETE.
MutateProcessors(r) ==
    /\ requests[r].pc = "mutationSent"
    /\ IF Accepts(requests[r].method, requests[r].arg[1])
         THEN /\ server' = ServerAfter(requests[r].method, requests[r].arg[1])
              /\ SetRequest(r, [requests[r] EXCEPT !.pc = "mutationOk"])
         ELSE /\ UNCHANGED server
              /\ SetRequest(r, [requests[r] EXCEPT !.pc = "mutationFailed"])
    /\ UNCHANGED <<state, vault>>

\* internalFetch rejects: the request did not get through.
RequestFails(r) ==
    /\ requests[r].pc \in {"getSent", "mutationSent"}
    /\ SetRequest(r, [requests[r] EXCEPT
          !.pc = IF requests[r].pc = "getSent" THEN "getFailed" ELSE "mutationFailed"])
    /\ UNCHANGED <<state, server, vault>>


\* addProcessor / updateProcessor / deleteProcessor after their await resolved:
\* the toast, then refreshProcessors() runs fetchProcessors up to its await
RefreshProcessors(r) ==
    /\ requests[r].pc = "mutationOk"
    /\ state' = setLoading(TRUE)
    /\ SetRequest(r, [requests[r] EXCEPT !.pc = "getSent"])
    /\ UNCHANGED <<server, vault>>

\* the mutator's request rejected: setLoading(false), and the mutator rejects
CancelLoadingAndReject(r) ==
    /\ requests[r].pc = "mutationFailed"
    /\ state' = setLoading(FALSE)
    /\ SetRequest(r, [requests[r] EXCEPT !.pc = "rejected"])
    /\ UNCHANGED <<server, vault>>

\* fetchProcessors after its await resolved: setState({processors, isLoading: false})
FetchProcessorsResolved(r) ==
    /\ requests[r].pc = "getOk"
    /\ state' = [processors |-> requests[r].response, isLoading |-> FALSE]
    /\ SetRequest(r, [requests[r] EXCEPT !.pc = "resolved", !.response = <<>>])
    /\ UNCHANGED <<server, vault>>

\* fetchProcessors when its await rejected: it rejects, with no setState;
\* refreshProcessors swallows the rejection
FetchProcessorsRejected(r) ==
    /\ requests[r].pc = "getFailed"
    /\ SetRequest(r, [requests[r] EXCEPT !.pc = "rejected"])
    /\ UNCHANGED <<state, server, vault>>

----------------------------------------------------------------------------
(* Specifications *)

\* An empty vault.  Association rows are written outside SubjectsService, which
\* only reads and deletes them: any set of them may be there from the start.
Init ==
    /\ subjects = {}
    /\ subject_keys = {}
    /\ subject_processors \in SUBSET [subject_id : SubjectIds, processor_id : ProcessorIds]
    /\ calls = [c \in Callers |-> Idle]
    /\ nextKey = 1
    /\ ledger = [id \in SubjectIds |-> 0]
    /\ ncalls = 0
    /\ erased = {}
    /\ InitProvider

Step(c) ==
    \/ GetSubjectDataCall(c)
    \/ InitializeUserInTransaction(c)
    \/ CreateNewSubject(c)
    \/ CreateNewSubjectSaveKey(c)
    \/ UpdateExistingSubjectSelectKey(c)
    \/ UpdateExistingSubjectSaveKey(c)
    \/ UpdateExistingSubject(c)
    \/ EraseDeleteKeys(c)
    \/ EraseDeleteProcessors(c)
    \/ EraseRecordErasure(c)
    \/ EraseRecordErasureFails(c)
    \/ Commit(c)
    \/ StoreFailure(c)
    \/ Restrict(c)
    \/ GetSubjectRestrictionsCall(c)
    \/ Object(c)
    \/ GetSubjectObjectionCall(c)
    \/ ListSubjectsCount(c)
    \/ ListSubjectsSelectPage(c)

NoneInFlight == \A c \in Callers : ~InFlight(c)

\* Calls made one after another by a single caller.
SerialStart == NoneInFlight /\ StartCall(1)

Next == SerialStart \/ \E c \in Callers : Step(c)

Spec == Init /\ [][Next]_vars

\* Overlapping initializeUser calls: an initializeUser may start while other
\* initializeUser calls are in flight; erasures and reads run alone.
ConcurrentInitializeUser(c) ==
    /\ \A d \in Callers : InFlight(d) => calls[d].op = "initializeUser"
    /\ StartInitializeUser(c)

AloneStart ==
    NoneInFlight /\ (StartEraseDataAndRevokeConsent(1) \/ StartGetSubjectData(1))

StepConc(c) ==
    \/ GetSubjectDataCall(c)
    \/ InitializeUserInTransaction(c)
    \/ CreateNewSubject(c)
    \/ CreateNewSubjectSaveKey(c)
    \/ UpdateExistingSubjectSelectKey(c)
    \/ UpdateExistingSubjectSaveKey(c)
    \/ UpdateExistingSubject(c)
    \/ EraseDeleteKeys(c)
    \/ EraseDeleteProcessors(c)
    \/ EraseRecordErasure(c)
    \/ EraseRecordErasureFails(c)
    \/ Commit(c)
    \/ StoreFailure(c)

NextConc ==
    \/ AloneStart
    \/ \E c \in Callers : ConcurrentInitializeUser(c)
    \/ \E c \in Callers : StepConc(c)


\* Overlapping calls start from a store in which every subject id is associated
\* with every processor.
InitConc ==
    /\ subjects = {}
    /\ subject_keys = {}
    /\ subject_processors = [subject_id : SubjectIds, processor_id : ProcessorIds]
    /\ calls = [c \in Callers |-> Idle]
    /\ nextKey = 1
    /\ ledger = [id \in SubjectIds |-> 0]
    /\ ncalls = 0
    /\ erased = {}
    /\ InitProvider

SpecConc == InitConc /\ [][NextConc]_vars

\* Listing over a populated store: subjects 1..n initialised (subject i under key i),
\* all of them associated with processor 1 and the first m with processor 2, and
\* possibly subject 1 erased since.
ListedSubject(i) == NewSubjectRow(i, [name |-> "Alice"], i)

InitList ==
    \E n \in 0..MaxListSubjects : \E m \in 0..n, gone \in SUBSET ({1} \cap 1..n) :
        /\ subjects = { ListedSubject(i) : i \in 1..n }
        /\ subject_keys = { [subject_id |-> i, key |-> i] : i \in (1..n) \ gone }
        /\ subject_processors =
              { [subject_id |-> i, processor_id |-> 1] : i \in (1..n) \ gone }
              \cup { [subject_id |-> i, processor_id |-> 2] : i \in (1..m) \ gone }
        /\ calls = [c \in Callers |-> Idle]
        /\ nextKey = n + 1
        /\ ledger = [id \in SubjectIds |-> IF id \in gone THEN 1 ELSE 0]
        /\ ncalls = 0
        /\ erased = gone
        /\ InitProvider

NextList ==
    \/ NoneInFlight /\ StartListSubjects(1)
    \/ ListSubjectsCount(1)
    \/ ListSubjectsSelectPage(1)
    \/ StoreFailure(1)

SpecList == InitList /\ [][NextList]_vars


\* A listing overlapping with initializeUser and eraseDataAndRevokeConsent calls
\* of another caller.  The store holds one full page of subjects of processor 1
\* besides the subjects the other caller works on, which are not initialised yet
\* and associated with every processor; the keys of the stored subjects are not
\* among those the generator will hand out.
SnapshotIds == { Cardinality(SubjectIds) + i : i \in 1..PAGE_SIZE }

SnapshotSubject(i) == NewSubjectRow(i, [name |-> "Alice"], MaxKeys + i)

InitSnapshot ==
    /\ subjects = { SnapshotSubject(i) : i \in SnapshotIds }
    /\ subject_keys = { [subject_id |-> i, key |-> MaxKeys + i] : i \in SnapshotIds }
    /\ subject_processors =
          { [subject_id |-> i, processor_id |-> 1] : i \in SnapshotIds }
          \cup [subject_id : SubjectIds, processor_id : ProcessorIds]
    /\ calls = [c \in Callers |-> Idle]
    /\ nextKey = 1
    /\ ledger = [id \in SubjectIds |-> 0]
    /\ ncalls = 0
    /\ erased = {}
    /\ InitProvider

NextSnapshot ==
    \/ StartListSubjects(1)
    \/ ListSubjectsCount(1)
    \/ ListSubjectsSelectPage(1)
    \/ StartInitializeUser(2)
    \/ StartEraseDataAndRevokeConsent(2)
    \/ InitializeUserInTransaction(2)
    \/ CreateNewSubject(2)
    \/ CreateNewSubjectSaveKey(2)
    \/ UpdateExistingSubjectSelectKey(2)
    \/ UpdateExistingSubjectSaveKey(2)
    \/ UpdateExistingSubject(2)
    \/ EraseDeleteKeys(2)
    \/ EraseDeleteProcessors(2)
    \/ EraseRecordErasure(2)
    \/ EraseRecordErasureFails(2)
    \/ Commit(2)
    \/ \E c \in Callers : StoreFailure(c)

SpecSnapshot == InitSnapshot /\ [][NextSnapshot]_vars


\* The console's provider over an empty vault that no one calls.
InitConsole == Init /\ subject_processors = {}

NextProvider ==
    \E r \in Requests :
        \/ FetchProcessors(r)
        \/ AddProcessor(r)
        \/ UpdateProcessor(r)
        \/ DeleteProcessor(r)
        \/ GetProcessors(r)
        \/ MutateProcessors(r)
        \/ RequestFails(r)
        \/ RefreshProcessors(r)
        \/ CancelLoadingAndReject(r)
        \/ FetchProcessorsResolved(r)
        \/ FetchProcessorsRejected(r)

SpecProvider == InitConsole /\ [][NextProvider]_vars

----------------------------------------------------------------------------
(* Claims *)

IsErase(c) == calls[c].op = "eraseDataAndRevokeConsent"
IsInit(c) == calls[c].op = "initializeUser"
IsList(c) == calls[c].op = "listSubjects"
Done(c) == calls[c].pc = "done"
Succeeded(c) == Done(c) /\ calls[c].result = Ok

\* C1: whenever an erasure has invoked the ledger notifier, its transaction has
\* already committed (so a transaction that fails to commit comes with zero
\* invocations), and a successful erasure has invoked it exactly once.
C1_NotifyOnceAfterCommit ==
    \A c \in Callers : IsErase(c) =>
        /\ calls[c].notified > 0 => Succeeded(c)
        /\ Succeeded(c) => calls[c].notified = 1

\* C2: an erasure whose notifier call failed still returns successfully, with the
\* key row and the processor-association rows of its subject deleted.
C2_NotifierFailureNotFatal ==
    \A c \in Callers : (IsErase(c) /\ Done(c) /\ calls[c].notifierFailed) =>
        /\ calls[c].result = Ok
        /\ KeyRows(calls[c].subjectId) = {}
        /\ ProcessorRows(calls[c].subjectId) = {}

\* C3: once eraseDataAndRevokeConsent(S) has succeeded, getSubjectData(S) fails
\* with NotFound and no processor-association row of S remains.
C3_ErasedNotFound ==
    \A c \in Callers : (IsErase(c) /\ Succeeded(c)) =>
        /\ GetSubjectData(calls[c].subjectId) = NotFound
        /\ ProcessorRows(calls[c].subjectId) = {}

\* an erasure of an initialised subject has succeeded; its Subject row is still there
C3_Witness ==
    \E c \in Callers :
        /\ IsErase(c) /\ Succeeded(c) /\ ncalls = 2
        /\ SubjectRows(calls[c].subjectId) # {}

\* C4: no step of eraseDataAndRevokeConsent(S) changes the subjects table (so the
\* ciphertext, the consent flags and the objection of S read as before), nor the
\* key rows and processor associations of any other subject.
C4_EraseFrame ==
    [][\A c \in Callers : (IsErase(c) /\ InFlight(c)) =>
          /\ subjects' = subjects
          /\ GetSubjectRestrictions(calls[c].subjectId)' = GetSubjectRestrictions(calls[c].subjectId)
          /\ GetSubjectObjection(calls[c].subjectId)' = GetSubjectObjection(calls[c].subjectId)
          /\ \A id \in SubjectIds \ {calls[c].subjectId} :
                /\ KeyRows(id)' = KeyRows(id)
                /\ ProcessorRows(id)' = ProcessorRows(id)]_vars

\* an erasure of subject S has succeeded where S carries restricted flags and the
\* other subject still has its key and an association
C4_Witness ==
    \E c \in Callers :
        /\ IsErase(c) /\ Succeeded(c)
        /\ \E r \in SubjectRows(calls[c].subjectId) : ~r.direct_marketing
        /\ KeyRows(calls[c].subjectId) = {}
        /\ \E id \in SubjectIds \ {calls[c].subjectId} :
              KeyRows(id) # {} /\ ProcessorRows(id) # {}

\* C5: when initializeUser(S, P) has returned, getSubjectData(S) returns P,
\* whether S was absent or present before the call.
C5_InitializeThenGet ==
    \A c \in Callers : (IsInit(c) /\ Succeeded(c)) =>
        GetSubjectData(calls[c].subjectId) = Value(calls[c].arg)

\* the second of two initializeUser calls on the same subject has returned
C5_Witness ==
    \E c \in Callers :
        /\ IsInit(c) /\ Succeeded(c) /\ ncalls = 2 /\ nextKey = 2
        /\ subject_keys = {[subject_id |-> calls[c].subjectId, key |-> 1]}

\* C6: while a key row of S exists, no step of initializeUser(S, ..) changes the
\* key rows of S (there is one, and it keeps its value) or generates a key; and
\* when the call returns, getSubjectData(S) returns the payload of this call.
C6_KeyNeverRotated ==
    [][\A c \in Callers : (IsInit(c) /\ InFlight(c)) =>
          /\ KeyRows(calls[c].subjectId) # {} =>
                /\ KeyRows(calls[c].subjectId)' = KeyRows(calls[c].subjectId)
                /\ Cardinality(KeyRows(calls[c].subjectId)) = 1
                /\ nextKey' = nextKey
          /\ (calls'[c].pc = "done" /\ calls'[c].result = Ok) =>
                GetSubjectData(calls[c].subjectId)' = Value(calls[c].arg)]_vars

\* the third call, an initializeUser of the one subject, has re-encrypted its
\* payload under the key generated at creation
C6_Witness ==
    \E c \in Callers :
        /\ IsInit(c) /\ Succeeded(c) /\ ncalls = 3 /\ nextKey = 2
        /\ subject_keys = {[subject_id |-> calls[c].subjectId, key |-> 1]}
        /\ \E r \in subjects :
              r.personal_data = Some(encryptForStorage(JSONStringify(calls[c].arg), 1))

\* C7: with initializeUser calls overlapping, every subject id has at most one
\* Subject row and at most one key row, and a stored key decrypts the stored
\* ciphertext.
C7_OneRowPerSubject ==
    \A id \in SubjectIds :
        /\ Cardinality(SubjectRows(id)) <= 1
        /\ Cardinality(KeyRows(id)) <= 1
        /\ KeyRows(id) # {} => GetSubjectData(id).kind = "value"

\* two overlapping initializeUser calls of the same subject id have finished:
\* one committed, the other was rejected by the store
C7_Witness ==
    \E c, d \in Callers :
        /\ IsInit(c) /\ IsInit(d) /\ calls[c].subjectId = calls[d].subjectId
        /\ Succeeded(c)
        /\ Done(d) /\ calls[d].result = UniqueViolation
        /\ ncalls = 2

\* C8: a step of initializeUser(S, P) other than its successful commit leaves the
\* committed store as it is; the successful commit leaves a Subject row of S whose
\* ciphertext is P encrypted under the key of the key row of S.
C8_InitializeAtomic ==
    [][\A c \in Callers : (IsInit(c) /\ InFlight(c)) =>
          IF calls'[c].pc = "done" /\ calls'[c].result = Ok
            THEN \E k \in subject_keys' : \E r \in subjects' :
                    /\ k.subject_id = calls[c].subjectId
                    /\ r.id = calls[c].subjectId
                    /\ r.personal_data =
                          Some(encryptForStorage(JSONStringify(calls[c].arg), k.key))
            ELSE store' = store]_vars

\* the first call, an initializeUser, failed after it had generated its key
C8_Witness ==
    \E c \in Callers :
        /\ IsInit(c) /\ Done(c) /\ calls[c].result = StoreError
        /\ ncalls = 1 /\ nextKey = 2
        /\ subjects = {} /\ subject_keys = {}

\* The subject ids a listing for processorId ranges over.
Matching(processorId) ==
    { id \in { r.id : r \in subjects } :
        /\ \E k \in subject_keys : k.subject_id = id
        /\ \E a \in subject_processors : a.subject_id = id /\ a.processor_id = processorId }

ExpectedTotal(n) == IF n = 0 THEN 1 ELSE ((n - 1) \div 10) + 1

\* C9: a listSubjects(processorId, page) whose queries ran fails with
\* ValidationError exactly when page < 1 or page > total, and otherwise reports
\* paging {current: page, total: max(1, ceil(n / 10))}; with no matching subject
\* page 1 is {data: [], paging: {current: 1, total: 1}}.
C9_Paging ==
    \A c \in Callers : (IsList(c) /\ Done(c) /\ calls[c].result # StoreError) =>
        LET page == calls[c].arg[2]
            n == Cardinality(Matching(calls[c].arg[1]))
            total == ExpectedTotal(n)
        IN  /\ (calls[c].result = ValidationError) <=> (page < 1 \/ page > total)
            /\ calls[c].result # ValidationError =>
                  /\ calls[c].result.kind = "value"
                  /\ calls[c].result.value.paging = [current |-> page, total |-> total]
            /\ (n = 0 /\ page = 1) =>
                  calls[c].result =
                      Value([data |-> <<>>, paging |-> [current |-> 1, total |-> 1]])

\* page 2 of 2 has been listed
C9_Witness ==
    \E c \in Callers :
        /\ IsList(c) /\ Done(c) /\ calls[c].result.kind = "value"
        /\ calls[c].result.value.paging = [current |-> 2, total |-> 2]
        /\ Len(calls[c].result.value.data) > 0

\* C10: every subject id a listing returns is associated with the processor asked
\* for and has a non-null ciphertext and a key row, and is not an erased one.
C10_ListedAreLive ==
    \A c \in Callers : (IsList(c) /\ Done(c) /\ calls[c].result.kind = "value") =>
        \A i \in 1..Len(calls[c].result.value.data) :
            LET id == calls[c].result.value.data[i].id
            IN  /\ [subject_id |-> id, processor_id |-> calls[c].arg[1]] \in subject_processors
                /\ \E r \in subjects : r.id = id /\ r.personal_data # NULL
                /\ \E k \in subject_keys : k.subject_id = id
                /\ id \notin erased

\* a listing has returned while an erased subject has been initialised again
C10_Witness ==
    \E c \in Callers :
        /\ IsList(c) /\ Done(c) /\ calls[c].result.kind = "value"
        /\ \E id \in erased : KeyRows(id) # {} /\ SubjectRows(id) # {}

\* The matching id with exactly pos - 1 smaller matching ids.
IdAtPosition(processorId, pos) ==
    CHOOSE id \in Matching(processorId) :
        Cardinality({ other \in Matching(processorId) : other < id }) = pos - 1

\* C11: on an unchanged store a listing of page k returns the matching ids at
\* positions (k-1)*10+1 .. k*10 of the ascending id order, at most 10 of them
\* and all of those that exist, so that pages 1..total together hold every
\* matching id exactly once.
C11_PagesPartitionAscending ==
    \A c \in Callers : (IsList(c) /\ Done(c) /\ calls[c].result.kind = "value") =>
        LET k == calls[c].arg[2]
            n == Cardinality(Matching(calls[c].arg[1]))
            data == calls[c].result.value.data
            rest == n - (k - 1) * 10
        IN  /\ Len(data) <= 10
            /\ Len(data) = (IF rest > 10 THEN 10 ELSE rest)
            /\ \A i \in 1..Len(data) :
                  data[i] = [id |-> IdAtPosition(calls[c].arg[1], (k - 1) * 10 + i)]

\* page 2 of 2 has been listed in full after subject 1 was erased: it starts at id 12
C11_Witness ==
    \E c \in Callers :
        /\ IsList(c) /\ Done(c) /\ calls[c].result.kind = "value"
        /\ calls[c].result.value.paging = [current |-> 2, total |-> 2]
        /\ Len(calls[c].result.value.data) = 10
        /\ calls[c].arg[1] = 2
        /\ calls[c].result.value.data[1].id = 12
        /\ erased # {}

\* A restrict or object call whose statement ran returns in this step.
MutatorReturns(c, op) ==
    /\ At(c, op, "statement")
    /\ calls'[c].pc = "done"
    /\ calls'[c].result # StoreError

\* C12: restrict and object on an id with no Subject row fail with NotFound and
\* change nothing; on an existing id they succeed, and right afterwards
\* getSubjectRestrictions returns exactly the three flags written and
\* getSubjectObjection exactly the objection written.
C12_MutatorsReflected ==
    [][\A c \in Callers :
          LET S == calls[c].subjectId
              a == calls[c].arg
          IN  /\ MutatorReturns(c, "restrict") =>
                    IF SubjectRows(S) = {}
                      THEN calls'[c].result = NotFound /\ store' = store
                      ELSE /\ calls'[c].result = Ok
                           /\ GetSubjectRestrictions(S)' =
                                 Value([direct_marketing |-> a[1],
                                        email_communication |-> a[2],
                                        research |-> a[3]])
              /\ MutatorReturns(c, "object") =>
                    IF SubjectRows(S) = {}
                      THEN calls'[c].result = NotFound /\ store' = store
                      ELSE /\ calls'[c].result = Ok
                           /\ GetSubjectObjection(S)' = Value([objection |-> Some(a[1])])]_vars

\* restrict(S, false, true, false) has succeeded on a subject whose objection was
\* set before, and the getter's answer is {false, true, false}
C12_Witness ==
    \E c \in Callers :
        /\ calls[c].op = "restrict" /\ Succeeded(c)
        /\ calls[c].arg = <<FALSE, TRUE, FALSE>>
        /\ GetSubjectRestrictions(calls[c].subjectId) =
              Value([direct_marketing |-> FALSE, email_communication |-> TRUE,
                     research |-> FALSE])
        /\ GetSubjectObjection(calls[c].subjectId) = Value([objection |-> Some(TRUE)])

\* In this step a successful initializeUser(id) commits.
InitializeCommits(id) ==
    \E c \in Callers :
        /\ At(c, "initializeUser", "commit")
        /\ calls[c].subjectId = id
        /\ calls'[c].pc = "done" /\ calls'[c].result = Ok

\* The answers of the three getters, as calls made from the current state return them.
GetterAnswers(id) ==
    <<GetSubjectData(id), GetSubjectRestrictions(id), GetSubjectObjection(id)>>

\* C13: for an id that was never initialized the three getters fail with NotFound,
\* whatever was done to other ids: an id has a Subject row only from the commit
\* of a successful initializeUser of that very id on, until then each getter
\* answers NotFound, and a getter call that returns then returns NotFound.
C13_NeverInitializedNotFound ==
    /\ [](\A id \in SubjectIds :
            SubjectRows(id) = {} => GetterAnswers(id) = <<NotFound, NotFound, NotFound>>)
    /\ [][\A id \in SubjectIds :
            /\ (SubjectRows(id) = {} /\ SubjectRows(id)' # {}) => InitializeCommits(id)
            /\ \A c \in Callers :
                  ( /\ SubjectRows(id) = {}
                    /\ calls[c].subjectId = id
                    /\ calls[c].op \in {"getSubjectData", "getSubjectRestrictions",
                                        "getSubjectObjection"}
                    /\ calls[c].pc = "statement"
                    /\ calls'[c].pc = "done" /\ calls'[c].result # StoreError )
                  => calls'[c].result = NotFound]_vars

\* getSubjectRestrictions of a never-initialized id has answered NotFound after
\* another id was initialized, restricted and erased
C13_Witness ==
    \E c \in Callers :
        /\ calls[c].op = "getSubjectRestrictions" /\ Done(c)
        /\ calls[c].result = NotFound
        /\ SubjectRows(calls[c].subjectId) = {}
        /\ \E r \in subjects : r.id \in erased /\ r.direct_marketing = FALSE

\* C14: the default consent flags are set only when initializeUser creates the
\* Subject row (all three true); an initializeUser of an existing id, an erased
\* one included, changes nothing of the row but its ciphertext, so the three
\* flags and the objection stay as restrict and object left them.
C14_DefaultsOnlyAtCreation ==
    [][\A id \in SubjectIds :
          /\ InitializeCommits(id) =>
                IF SubjectRows(id) = {}
                  THEN \E r \in subjects' :
                          /\ SubjectRows(id)' = {r}
                          /\ r.direct_marketing /\ r.email_communication /\ r.research
                          /\ r.objection = NULL
                  ELSE \E r \in subjects : \E q \in subjects' :
                          /\ SubjectRows(id) = {r} /\ SubjectRows(id)' = {q}
                          /\ q = [r EXCEPT !.personal_data = q.personal_data]
          /\ InitializeCommits(id) =>
                \A o \in SubjectIds \ {id} : SubjectRows(o)' = SubjectRows(o)
          /\ \A r \in SubjectRows(id) : \A q \in SubjectRows(id)' :
                ( \/ q.direct_marketing # r.direct_marketing
                  \/ q.email_communication # r.email_communication
                  \/ q.research # r.research )
                => \E c \in Callers : At(c, "restrict", "statement") /\ calls[c].subjectId = id]_vars

\* initializeUser has succeeded on an erased subject whose flags restrict had
\* changed, and they are still as restrict left them
C14_Witness ==
    \E c \in Callers :
        /\ IsInit(c) /\ Succeeded(c)
        /\ calls[c].subjectId \in erased
        /\ KeyRows(calls[c].subjectId) # {}
        /\ \E r \in SubjectRows(calls[c].subjectId) :
              /\ ~r.direct_marketing /\ r.email_communication /\ ~r.research
              /\ r.personal_data # NULL

\* C15: erasure is terminal: once eraseDataAndRevokeConsent(S) has succeeded on
\* a subject, leaving its Subject row without a key row, no later step gives S
\* an Encryption Key row again, and getSubjectData(S) goes on failing with NotFound.
C15_ErasureTerminal ==
    [][\A id \in erased :
          (SubjectRows(id) # {} /\ KeyRows(id) = {}) =>
              /\ KeyRows(id)' = {}
              /\ GetSubjectData(id)' = NotFound]_vars

\* The subject was initialised and then erased: its row is there, its key row is not.
ErasedSubject(id) == id \in erased /\ SubjectRows(id) # {} /\ KeyRows(id) = {}

\* C16: an initializeUser(S, P) that commits on an erased subject went through
\* the 'subject present, key absent' branch: it inserts one key row with a new
\* key, not the one the old ciphertext was encrypted under, replaces the
\* ciphertext by P encrypted under the new key and succeeds, so that
\* getSubjectData(S) returns P; it adds no processor association, and S is in
\* no processor's listing.
C16_ResurrectedWithFreshKey ==
    [][\A c \in Callers :
          LET S == calls[c].subjectId
              old == CHOOSE r \in SubjectRows(S) : TRUE
          IN  ( /\ At(c, "initializeUser", "commit")
                /\ ErasedSubject(S)
                /\ calls'[c].pc = "done"
                /\ calls'[c].result # StoreError )
              => /\ calls[c].trx.insSubjects = {} /\ calls[c].trx.updData # {}
                 /\ calls'[c].result = Ok
                 /\ \E k \in subject_keys' :
                       /\ KeyRows(S)' = {k}
                       /\ k.key # old.personal_data[1].key
                       /\ \A r \in SubjectRows(S)' :
                             r.personal_data =
                                 Some(encryptForStorage(JSONStringify(calls[c].arg), k.key))
                 /\ GetSubjectData(S)' = Value(calls[c].arg)
                 /\ subject_processors' = subject_processors
                 /\ ProcessorRows(S)' = {}
                 /\ \A p \in ProcessorIds : \A j \in ListJoin(p)' : j.id # S]_vars

\* an erased subject has been initialised again, is read back under its second
\* key, and the other subject still has a processor association
C16_Witness ==
    \E c \in Callers :
        /\ IsInit(c) /\ Succeeded(c)
        /\ calls[c].subjectId \in erased
        /\ calls[c].arg = [name |-> "Bob"]
        /\ GetSubjectData(calls[c].subjectId) = Value([name |-> "Bob"])
        /\ KeyRows(calls[c].subjectId) = {[subject_id |-> calls[c].subjectId, key |-> 2]}
        /\ ledger[calls[c].subjectId] = 1
        /\ \E a \in subject_processors : a.subject_id # calls[c].subjectId

\* C17: what listSubjects returns is what one state of the store gives, also
\* when initializeUser or eraseDataAndRevokeConsent commit during the call: the
\* rows and paging.total fit one number n of matching subjects, with
\* total = max(1, ceil(n / 10)) and as many rows as page `current` has among n.
C17_ListSnapshot ==
    \A c \in Callers : (IsList(c) /\ Done(c) /\ calls[c].result.kind = "value") =>
        LET k == calls[c].result.value.paging.current
            total == calls[c].result.value.paging.total
            rows == Len(calls[c].result.value.data)
        IN  \E n \in 0..(total * PAGE_SIZE) :
                /\ ExpectedTotal(n) = total
                /\ rows = (IF n - (k - 1) * PAGE_SIZE > PAGE_SIZE THEN PAGE_SIZE
                           ELSE n - (k - 1) * PAGE_SIZE)

\* There is nothing of the id for an erasure to delete: it was never initialized,
\* or it was erased and not initialized since.
NoRecord(id) ==
    /\ SubjectRows(id) = {} \/ id \in erased
    /\ KeyRows(id) = {}
    /\ ProcessorRows(id) = {}

\* C18: eraseDataAndRevokeConsent never fails with NotFound; on an id that was
\* never initialized or is already erased it invokes the ledger notifier all the
\* same, and when it returns successfully the subject, key and association
\* stores are as they were; a second erasure of an erased subject brings its
\* notifications to two at least.
C18_EraseIdempotentButNotifies ==
    /\ [](\A c \in Callers : (IsErase(c) /\ Done(c)) => calls[c].result # NotFound)
    /\ [][\A c \in Callers :
            LET S == calls[c].subjectId
            IN  /\ ( /\ At(c, "eraseDataAndRevokeConsent", "deleteProcessors")
                     /\ NoRecord(S)
                     /\ calls'[c].pc = "recordErasure" ) =>
                      /\ ledger'[S] = ledger[S] + 1
                      /\ store' = store
                /\ ( /\ At(c, "eraseDataAndRevokeConsent", "commit")
                     /\ NoRecord(S)
                     /\ calls'[c].pc = "done"
                     /\ calls'[c].result # StoreError )
                   => /\ calls'[c].result = Ok
                      /\ store' = store
                      /\ calls[c].notified = 1
                      /\ S \in erased => ledger[S] >= 2]_vars

\* an initialised subject has been erased twice, each time successfully, and the
\* ledger has two notifications for it
C18_Witness ==
    \E c \in Callers :
        /\ IsErase(c) /\ Succeeded(c) /\ calls[c].notified = 1
        /\ ncalls = 3
        /\ SubjectRows(calls[c].subjectId) # {}
        /\ KeyRows(calls[c].subjectId) = {}
        /\ ledger[calls[c].subjectId] = 2

AllSettled == \A r \in Requests : ~Pending(r)

\* C19: in ProcessorsProvider isLoading is true only while a request is in
\* flight: once every fetchProcessors call, direct or made by refreshProcessors
\* after a successful mutator, has settled, resolved or rejected, isLoading is false.
C19_LoadingOnlyInFlight ==
    /\ state.isLoading => \E r \in Requests : Pending(r)
    /\ AllSettled => ~state.isLoading

\* C20: in ProcessorsProvider, when overlapping addProcessor, updateProcessor and
\* deleteProcessor calls and the refreshes they made have all settled
\* successfully, state.processors is the management API's list as the last
\* mutation left it.
C20_LastFetchWins ==
    ( /\ \A r \in Requests : requests[r].pc \in {"idle", "resolved"}
      /\ \A r \in Requests : requests[r].method # "fetchProcessors"
      /\ \E r \in Requests : requests[r].pc = "resolved" )
    => state.processors = server

====
